---- MODULE Spec2Model ----
(***************************************************************************)
(* The Standards Agents API of main.py: three module-level agent objects   *)
(* (SafetyAgent, QualityAgent, TeamAgent) built once by agents.py, and the *)
(* FastAPI handlers that mutate and run them.                              *)
(*                                                                         *)
(* A handler is an `async def` that never awaits: everything it does up to *)
(* its call of <agent>.run is one step.  The run itself is the only place  *)
(* where another request can be served (the knowledge-base query and the   *)
(* language-model call inside the framework), so a request is modelled by  *)
(* two steps: the handler up to the call of run, and the return (or raise) *)
(* of run followed by the rest of the handler.                             *)
(***************************************************************************)
EXTENDS Naturals, Sequences, FiniteSets, TLC

(* ------------------------------ bounds --------------------------------- *)

\* Number of HTTP requests served in one behaviour.
MaxRequests == 2

(* --------------------------- Python values ----------------------------- *)

\* None, for a variable that holds an object.
None == [py_none |-> TRUE]

\* None, for an Optional[str] field (JSON null).
Null == "<None>"

\* An unset environment variable: os.environ.get(name) is None.
Unset == "<unset>"

\* bool(x) for an Optional[str]: None and "" are falsy.
StrTruthy(s) == s # Null /\ s # ""

\* bool(x) for an environment value.
EnvTruthy(v) == v # Unset /\ v # ""

\* str(x) inside an f-string, for an Optional[str].
PyStr(s) == IF s = Null THEN "None" ELSE s

\* A dict is a sequence of <<key, value>> pairs in insertion order.
DictKeys(d) == [i \in 1..Len(d) |-> d[i][1]]

DictHas(d, k) == \E i \in 1..Len(d) : d[i][1] = k

DictGet(d, k) == d[CHOOSE i \in 1..Len(d) : d[i][1] = k][2]

\* ", ".join(seq)
RECURSIVE JoinComma(_)
JoinComma(seq) ==
    IF Len(seq) = 0 THEN ""
    ELSE IF Len(seq) = 1 THEN seq[1]
    ELSE seq[1] \o ", " \o JoinComma(Tail(seq))

(* ------------------------------ agents.py ------------------------------ *)

default_model_id == "o3-mini"

\* OpenAIChat(id=...): the model object is identified by its id.
OpenAIChat(id) == id

collaborate_instructions == <<
    "First determine whether the question is primarily about safety standards or quality standards.",
    "For safety questions (workplace safety, hazard prevention, fire safety, electrical safety, etc.), primarily rely on the Safety Standards Agent.",
    "For quality questions (quality assurance, cross-contamination prevention, personnel hygiene, etc.), primarily rely on the Quality Standards Agent.",
    "Synthesize a comprehensive response based on contributions from all experts.",
    "Always identify which expert provided which information in your response.",
    "If the question is completely unrelated to either safety or quality standards, respond that you can only answer questions related to safety and quality standards." >>

route_instructions == <<
    "Analyze the user's question to determine if it's about safety standards or quality standards.",
    "If the question is about safety protocols, workplace safety, hazard prevention, fire safety, electrical safety, noise standards, fall prevention, etc., route to the Safety Standards Agent.",
    "If the question is about quality assurance, quality control, cross-contamination prevention, personnel hygiene, utilities quality, etc., route to the Quality Standards Agent.",
    "If the question could apply to both domains, prioritize routing based on the most relevant expertise needed.",
    "Always provide a brief explanation of why you're routing to a particular agent before routing.",
    "If the question is completely unrelated to either safety or quality standards, respond that you can only answer questions related to safety and quality standards." >>

coordinate_instructions == <<
    "Break down the user's question into specific sub-tasks for each relevant team member.",
    "Delegate safety-related aspects (workplace safety, hazard prevention, fire safety, etc.) to the Safety Standards Agent.",
    "Delegate quality-related aspects (quality assurance, hygiene, contamination prevention, etc.) to the Quality Standards Agent.",
    "Synthesize the responses from each team member into a cohesive answer.",
    "Ensure the final response is comprehensive and addresses all aspects of the question.",
    "If the question is completely unrelated to either safety or quality standards, respond that you can only answer questions related to safety and quality standards." >>

\* The TEAM_INSTRUCTIONS dict literal of agents.py.
TeamInstructionsTable == <<
    << "collaborate",
       [instructions |-> collaborate_instructions,
        description |-> "You are a collaborative team where all members work on the same task to create comprehensive responses."] >>,
    << "route",
       [instructions |-> route_instructions,
        description |-> "You are a router that directs questions to the appropriate standards agent."] >>,
    << "coordinate",
       [instructions |-> coordinate_instructions,
        description |-> "You are a coordinator that delegates tasks to team members and synthesizes their outputs."] >> >>

\* Agent(name="Safety Standards Agent", model=OpenAIChat(id=default_model_id), ...)
NewSafetyAgent ==
    [name |-> "Safety Standards Agent", model |-> OpenAIChat(default_model_id)]

\* Agent(name="Quality Standards Agent", model=OpenAIChat(id=default_model_id), ...)
NewQualityAgent ==
    [name |-> "Quality Standards Agent", model |-> OpenAIChat(default_model_id)]

\* Team(name="Standards Team", mode="collaborate", ...); members are references.
NewTeamAgent ==
    [name         |-> "Standards Team",
     mode         |-> "collaborate",
     model        |-> OpenAIChat(default_model_id),
     members      |-> << "SafetyAgent", "QualityAgent" >>,
     description  |-> "You are a collaborative team where all members work on the same task to create comprehensive responses.",
     instructions |-> collaborate_instructions]

\* The AGENTS dict literal; its values are references to the three objects.
AgentsRegistry ==
    << << "safety", "SafetyAgent" >>,
       << "quality", "QualityAgent" >>,
       << "team", "TeamAgent" >> >>

\* The statements of the try block of agents.py, in order.
InitSteps ==
    << "vector_db", "safety_agent", "quality_agent", "team_instructions",
       "team_agent", "agents", "are_agents_available" >>

\* Those that call into the framework and so can raise.
RaisingSteps == {"vector_db", "safety_agent", "quality_agent", "team_agent"}

\* The module globals with nothing bound yet.
Unbound ==
    [SafetyAgent |-> None, QualityAgent |-> None, TeamAgent |-> None,
     AGENTS |-> << >>, TEAM_INSTRUCTIONS |-> << >>, available |-> FALSE,
     raised |-> "none"]

\* One statement of the try block, executed without raising.
ExecStep(g, step) ==
    CASE step = "safety_agent"         -> [g EXCEPT !.SafetyAgent = NewSafetyAgent]
      [] step = "quality_agent"        -> [g EXCEPT !.QualityAgent = NewQualityAgent]
      [] step = "team_instructions"    -> [g EXCEPT !.TEAM_INSTRUCTIONS = TeamInstructionsTable]
      [] step = "team_agent"           -> [g EXCEPT !.TeamAgent = NewTeamAgent]
      [] step = "agents"               -> [g EXCEPT !.AGENTS = AgentsRegistry]
      [] step = "are_agents_available" -> [g EXCEPT !.available = TRUE]
      [] OTHER                         -> g

\* The try block of agents.py from statement i on, run until the statement
\* fail_at raises (fail_at = "none": it runs to its end).
RECURSIVE TryBlock(_, _, _)
TryBlock(g, i, fail_at) ==
    IF i > Len(InitSteps) THEN g
    ELSE IF InitSteps[i] = fail_at THEN [g EXCEPT !.raised = "Exception"]
    ELSE TryBlock(ExecStep(g, InitSteps[i]), i + 1, fail_at)

\* Mutant of AgentsExcept: the agents built before the failure are kept.
AgentsExcept_KeepsBuilt(g) ==
    [g EXCEPT !.AGENTS = << >>, !.TEAM_INSTRUCTIONS = << >>,
              !.available = FALSE, !.raised = "none"]

\* The except clause of agents.py: every global is rebound for graceful failure.
AgentsExcept(g) ==
    [g EXCEPT !.AGENTS = << >>, !.TEAM_INSTRUCTIONS = << >>,
              !.SafetyAgent = None, !.QualityAgent = None, !.TeamAgent = None,
              !.available = FALSE, !.raised = "none"]

\* Executing agents.py under environment e.  The result's raised field names
\* the exception that leaves the module, if any.
agents_module(e, fail_at) ==
    IF ~EnvTruthy(e.LanceURL) \/ ~EnvTruthy(e.LANCE_API_KEY)
    THEN [Unbound EXCEPT !.raised = "ValueError"]
    ELSE LET g == TryBlock(Unbound, 1, fail_at)
         IN  IF g.raised # "none" THEN AgentsExcept(g) ELSE g

(* ------------------------------- main.py ------------------------------- *)

\* The fallback bindings of both except clauses of main.py.
MainFallback ==
    [SafetyAgent |-> None, QualityAgent |-> None, TeamAgent |-> None,
     AGENTS |-> << >>, TEAM_INSTRUCTIONS |-> << >>, available |-> FALSE,
     raised |-> "none"]

\* The import block of main.py: import_error says whether importing the agent
\* framework raises ImportError.
main_import(e, import_error, fail_at) ==
    IF import_error THEN MainFallback
    ELSE LET g == agents_module(e, fail_at)
         IN  IF g.raised # "none" THEN MainFallback ELSE g


\* Exceptions are records; NoExc stands for "nothing was raised".
NoExc == [type |-> "none"]

HTTPException(status_code, detail) ==
    [type |-> "HTTPException", status_code |-> status_code, detail |-> detail]

\* An exception raised by the framework's run, with its text.
RunException(text) == [type |-> "Exception", text |-> text]

\* Attribute access on None.
AttributeError(attr) ==
    [type |-> "AttributeError",
     text |-> "'NoneType' object has no attribute '" \o attr \o "'"]

StatusStr(code) ==
    CASE code = 400 -> "400" [] code = 500 -> "500" [] code = 503 -> "503"
      [] OTHER -> "200"

\* str(e): an HTTPException prints as "<status_code>: <detail>".
ExcStr(e) ==
    IF e.type = "HTTPException"
    THEN StatusStr(e.status_code) \o ": " \o e.detail
    ELSE e.text

\* What the client receives when a handler lets an HTTPException escape.
ErrorResponse(e) == [status |-> e.status_code, body |-> [detail |-> e.detail]]

\* What the client receives when a handler returns a dict.
OkResponse(body) == [status |-> 200, body |-> body]

\* QueryRequest(**json): model_id defaults to None.
QueryRequest(json) ==
    [query    |-> json.query,
     model_id |-> IF "model_id" \in DOMAIN json THEN json.model_id ELSE Null]

\* TeamQueryRequest(**json): model_id defaults to None, team_mode to "collaborate".
TeamQueryRequest(json) ==
    [query     |-> json.query,
     model_id  |-> IF "model_id" \in DOMAIN json THEN json.model_id ELSE Null,
     team_mode |-> IF "team_mode" \in DOMAIN json THEN json.team_mode
                   ELSE "collaborate"]

\* Mutant of AgentMissing: the availability test is left out (as in app.py).
AgentMissing_Never(agent) == FALSE

\* `if not SafetyAgent:` (and the same test of QualityAgent and TeamAgent).
AgentMissing(agent) == agent = None

\* `except Exception as e: raise HTTPException(status_code=500, detail=str(e))`
ExceptClause(e) == HTTPException(500, ExcStr(e))

\* Mutant of SetModel: the new model is built from default_model_id instead of
\* the requested id.
SetModel_Default(agent, model_id) ==
    IF agent = None
    THEN [raised |-> AttributeError("model"), agent |-> agent]
    ELSE [raised |-> NoExc,
          agent  |-> [agent EXCEPT !.model = OpenAIChat(default_model_id)]]

\* `<agent>.model = OpenAIChat(id=request.model_id)`
SetModel(agent, model_id) ==
    IF agent = None
    THEN [raised |-> AttributeError("model"), agent |-> agent]
    ELSE [raised |-> NoExc, agent |-> [agent EXCEPT !.model = OpenAIChat(model_id)]]

\* Mutant of ModelOverride: a request without a model_id restores the default.
ModelOverride_ResetsDefault(agent, request) ==
    IF StrTruthy(request.model_id)
    THEN SetModel(agent, request.model_id)
    ELSE SetModel(agent, default_model_id)

\* `if request.model_id:` and the assignment it guards.
ModelOverride(agent, request) ==
    IF StrTruthy(request.model_id)
    THEN SetModel(agent, request.model_id)
    ELSE [raised |-> NoExc, agent |-> agent]

\* Mutant of InstallBundle: the description is not reassigned.
InstallBundle_StaleDescription(team, table, team_mode) ==
    [team EXCEPT !.mode = team_mode,
                 !.instructions = DictGet(table, team_mode).instructions]

\* The three assignments that install the bundle of team_mode on the team.
InstallBundle(team, table, team_mode) ==
    [team EXCEPT !.mode = team_mode,
                 !.instructions = DictGet(table, team_mode).instructions,
                 !.description = DictGet(table, team_mode).description]

\* Mutant of TeamModeStep: an unknown mode is ignored instead of rejected.
TeamModeStep_NoReject(team, table, team_mode) ==
    IF DictHas(table, team_mode)
    THEN [raised |-> NoExc,
          agent  |-> [team EXCEPT !.mode = team_mode,
                          !.instructions = DictGet(table, team_mode).instructions,
                          !.description = DictGet(table, team_mode).description]]
    ELSE [raised |-> NoExc, agent |-> team]

\* Mutant of TeamModeStep: the default mode is taken to be installed already.
TeamModeStep_SkipDefault(team, table, team_mode) ==
    IF team_mode = "collaborate"
    THEN [raised |-> NoExc, agent |-> team]
    ELSE IF DictHas(table, team_mode)
    THEN [raised |-> NoExc,
          agent  |-> [team EXCEPT !.mode = team_mode,
                          !.instructions = DictGet(table, team_mode).instructions,
                          !.description = DictGet(table, team_mode).description]]
    ELSE [raised |-> HTTPException(400,
                        "Invalid team mode: " \o PyStr(team_mode)
                        \o ". Must be one of: " \o JoinComma(DictKeys(table))),
          agent  |-> team]

\* `if request.team_mode in TEAM_INSTRUCTIONS: ... else: raise HTTPException(400)`
TeamModeStep(team, table, team_mode) ==
    IF DictHas(table, team_mode)
    THEN [raised |-> NoExc, agent |-> InstallBundle(team, table, team_mode)]
    ELSE [raised |-> HTTPException(400,
                        "Invalid team mode: " \o PyStr(team_mode)
                        \o ". Must be one of: " \o JoinComma(DictKeys(table))),
          agent  |-> team]

\* A handler's step ends either with a response or inside <agent>.run.
Responds(resp, agent) == [kind |-> "response", resp |-> resp, agent |-> agent]

CallsRun(agent) ==
    IF agent = None
    THEN Responds(ErrorResponse(ExceptClause(AttributeError("run"))), agent)
    ELSE [kind |-> "run", resp |-> [status |-> 0, body |-> << >>], agent |-> agent]

\* ask_safety_agent and ask_quality_agent up to the call of run: the two
\* handlers differ in the agent and in the text of the 503 only.
AskAgentEntry(agent, request, detail503) ==
    IF AgentMissing(agent)
    THEN Responds(ErrorResponse(HTTPException(503, detail503)), agent)
    ELSE LET s1 == ModelOverride(agent, request)
         IN  IF s1.raised # NoExc
             THEN Responds(ErrorResponse(ExceptClause(s1.raised)), s1.agent)
             ELSE CallsRun(s1.agent)

\* ask_team_agent up to the call of TeamAgent.run.
AskTeamEntry(team, table, request) ==
    IF AgentMissing(team)
    THEN Responds(ErrorResponse(HTTPException(503,
             "Team Agent is not available due to LanceDB connection issues")), team)
    ELSE LET s1 == ModelOverride(team, request)
         IN  IF s1.raised # NoExc
             THEN Responds(ErrorResponse(ExceptClause(s1.raised)), s1.agent)
             ELSE LET s2 == TeamModeStep(s1.agent, table, request.team_mode)
                  IN  IF s2.raised # NoExc
                      THEN Responds(ErrorResponse(ExceptClause(s2.raised)), s2.agent)
                      ELSE CallsRun(s2.agent)

\* Mutant of RunReturned: the response object is answered instead of its content.
RunReturned_WholeResponse(content) ==
    OkResponse([response |-> "RunResponse(content='" \o content \o "')"])

\* `return {"response": response.content}`
RunReturned(content) == OkResponse([response |-> content])

\* Mutant of RunRaised: the failure is answered with a fallback body.
RunRaised_Fallback(e) == OkResponse([response |-> ExcStr(e)])

\* run raised e inside the handler's try block.
RunRaised(e) == ErrorResponse(ExceptClause(e))

\* Mutant of HealthBody: the agent names are hard-coded (as in mock_api.py).
HealthBody_Hardcoded(available, agents) ==
    [status           |-> "healthy",
     agents_status    |-> IF available THEN "available" ELSE "unavailable",
     available_agents |-> << "safety", "quality", "team" >>]

\* health_check()
HealthBody(available, agents) ==
    [status           |-> "healthy",
     agents_status    |-> IF available THEN "available" ELSE "unavailable",
     available_agents |-> IF Len(agents) > 0 THEN DictKeys(agents) ELSE << >>]

\* get_config()
ConfigBody(e, available) ==
    [lance_url          |-> IF e.LanceURL = Unset THEN "Not set" ELSE e.LanceURL,
     lance_api_key_set  |-> EnvTruthy(e.LANCE_API_KEY),
     openai_api_key_set |-> EnvTruthy(e.OPENAI_API_KEY),
     agents_available   |-> available]

\* root()
RootBody(available) ==
    [app           |-> "Standards Agents API",
     version       |-> "1.0.0",
     agents_status |-> IF available THEN "available" ELSE "unavailable",
     endpoints     |-> << "POST /safety/ask", "POST /quality/ask", "POST /team/ask",
                          "GET /health", "GET /config" >>]


(* ----------------------------- the server ------------------------------ *)

VARIABLES
    env,                \* os.environ after load_dotenv()
    boot,               \* what happened while main.py was imported
    SafetyAgent,        \* the module globals of main.py
    QualityAgent,
    TeamAgent,
    AGENTS,
    TEAM_INSTRUCTIONS,
    agents_available,   \* what are_agents_available() returns
    reqs                \* the HTTP requests, by arrival number

vars == << env, boot, SafetyAgent, QualityAgent, TeamAgent, AGENTS,
           TEAM_INSTRUCTIONS, agents_available, reqs >>

globals == << env, boot, AGENTS, TEAM_INSTRUCTIONS, agents_available >>

Modes == {"collaborate", "route", "coordinate"}

\* The inputs the requests are drawn from.
Queries == {"q"}

ModelIds == {"", "o3-mini", "gpt-4o"}

TeamModes == Modes \cup {Null, "bogus"}

Contents == {"answer A", "answer B"}

RunErrors == {"upstream failure"}

QueryBodies ==
    {[query |-> q] : q \in Queries}
    \cup {[query |-> q, model_id |-> m] : q \in Queries, m \in ModelIds}

TeamBodies ==
    QueryBodies
    \cup {[query |-> q, team_mode |-> t] : q \in Queries, t \in TeamModes}
    \cup {[query |-> q, model_id |-> m, team_mode |-> t] :
             q \in Queries, m \in ModelIds, t \in TeamModes}

\* The environments and start-up outcomes considered.
Envs ==
    {[LanceURL |-> u, LANCE_API_KEY |-> k, OPENAI_API_KEY |-> "sk"] :
        u \in {Unset, "db://standards"}, k \in {Unset, "key"}}

FailPoints == {"none"} \cup RaisingSteps

Boots ==
    {[import_error |-> TRUE, fail_at |-> "none"]}
    \cup {[import_error |-> FALSE, fail_at |-> f] : f \in FailPoints}

AgentNames == {"safety", "quality", "team"}

\* A request that has not arrived yet.  runs counts the handler's calls of each
\* agent's run; run_result is what its run returned or raised.
Idle ==
    [endpoint |-> "none", json |-> << >>, pc |-> "idle", status |-> 0,
     body |-> << >>, runs |-> [a \in AgentNames |-> 0], run_result |-> << >>]

Arrived(r) == IF r = 1 THEN TRUE ELSE reqs[r - 1].pc # "idle"

\* The request r after its handler's first step with outcome out.
Served(endpoint, json, target, out) ==
    [endpoint |-> endpoint,
     json     |-> json,
     pc       |-> IF out.kind = "run" THEN "running" ELSE "done",
     status   |-> out.resp.status,
     body     |-> out.resp.body,
     runs     |-> [a \in AgentNames |->
                      IF out.kind = "run" /\ a = target THEN 1 ELSE 0],
     run_result |-> << >>]

Init ==
    /\ env \in Envs
    /\ boot \in Boots
    /\ (~EnvTruthy(env.LanceURL) \/ ~EnvTruthy(env.LANCE_API_KEY)
            => boot = [import_error |-> FALSE, fail_at |-> "none"])
    /\ LET g == main_import(env, boot.import_error, boot.fail_at)
       IN  /\ SafetyAgent = g.SafetyAgent
           /\ QualityAgent = g.QualityAgent
           /\ TeamAgent = g.TeamAgent
           /\ AGENTS = g.AGENTS
           /\ TEAM_INSTRUCTIONS = g.TEAM_INSTRUCTIONS
           /\ agents_available = g.available
    /\ reqs = [r \in 1..MaxRequests |-> Idle]

\* POST /safety/ask, up to the call of SafetyAgent.run.
ask_safety_agent(r, json) ==
    /\ reqs[r].pc = "idle" /\ Arrived(r)
    /\ LET out == AskAgentEntry(SafetyAgent, QueryRequest(json),
                     "Safety Agent is not available due to LanceDB connection issues")
       IN  /\ SafetyAgent' = out.agent
           /\ reqs' = [reqs EXCEPT ![r] = Served("safety", json, "safety", out)]
    /\ UNCHANGED << globals, QualityAgent, TeamAgent >>

\* POST /quality/ask, up to the call of QualityAgent.run.
ask_quality_agent(r, json) ==
    /\ reqs[r].pc = "idle" /\ Arrived(r)
    /\ LET out == AskAgentEntry(QualityAgent, QueryRequest(json),
                     "Quality Agent is not available due to LanceDB connection issues")
       IN  /\ QualityAgent' = out.agent
           /\ reqs' = [reqs EXCEPT ![r] = Served("quality", json, "quality", out)]
    /\ UNCHANGED << globals, SafetyAgent, TeamAgent >>

\* Mutant of ask_team_agent: the model override is passed on to the members.
ask_team_agent_OverridesMembers(r, json) ==
    /\ reqs[r].pc = "idle" /\ Arrived(r)
    /\ LET request == TeamQueryRequest(json)
           out == AskTeamEntry(TeamAgent, TEAM_INSTRUCTIONS, request)
       IN  /\ TeamAgent' = out.agent
           /\ SafetyAgent' = IF AgentMissing(TeamAgent) THEN SafetyAgent
                             ELSE ModelOverride(SafetyAgent, request).agent
           /\ QualityAgent' = IF AgentMissing(TeamAgent) THEN QualityAgent
                              ELSE ModelOverride(QualityAgent, request).agent
           /\ reqs' = [reqs EXCEPT ![r] = Served("team", json, "team", out)]
    /\ UNCHANGED globals

\* POST /team/ask, up to the call of TeamAgent.run.
ask_team_agent(r, json) ==
    /\ reqs[r].pc = "idle" /\ Arrived(r)
    /\ LET out == AskTeamEntry(TeamAgent, TEAM_INSTRUCTIONS, TeamQueryRequest(json))
       IN  /\ TeamAgent' = out.agent
           /\ reqs' = [reqs EXCEPT ![r] = Served("team", json, "team", out)]
    /\ UNCHANGED << globals, SafetyAgent, QualityAgent >>

\* run returns a response with the given content; the handler returns it.
run_returns(r, content) ==
    /\ reqs[r].pc = "running"
    /\ LET resp == RunReturned(content)
       IN  reqs' = [reqs EXCEPT ![r].pc = "done", ![r].status = resp.status,
                                ![r].body = resp.body,
                                ![r].run_result = [returned |-> content]]
    /\ UNCHANGED << globals, SafetyAgent, QualityAgent, TeamAgent >>

\* run raises; the handler's except clause answers.
run_raises(r, text) ==
    /\ reqs[r].pc = "running"
    /\ LET resp == RunRaised(RunException(text))
       IN  reqs' = [reqs EXCEPT ![r].pc = "done", ![r].status = resp.status,
                                ![r].body = resp.body,
                                ![r].run_result = [raised |-> text]]
    /\ UNCHANGED << globals, SafetyAgent, QualityAgent, TeamAgent >>

\* A GET handler: it answers in one step and assigns nothing.
Answered(endpoint, body) ==
    [Idle EXCEPT !.endpoint = endpoint, !.pc = "done", !.status = 200, !.body = body]

\* Mutant of health_check: the check rebuilds the team before answering.
health_check_Reinitialises(r) ==
    /\ reqs[r].pc = "idle" /\ Arrived(r)
    /\ reqs' = [reqs EXCEPT ![r] =
                   Answered("health", HealthBody(agents_available, AGENTS))]
    /\ TeamAgent' = IF TeamAgent = None THEN None ELSE NewTeamAgent
    /\ UNCHANGED << globals, SafetyAgent, QualityAgent >>

\* GET /health
health_check(r) ==
    /\ reqs[r].pc = "idle" /\ Arrived(r)
    /\ reqs' = [reqs EXCEPT ![r] =
                   Answered("health", HealthBody(agents_available, AGENTS))]
    /\ UNCHANGED << globals, SafetyAgent, QualityAgent, TeamAgent >>

\* GET /config
get_config(r) ==
    /\ reqs[r].pc = "idle" /\ Arrived(r)
    /\ reqs' = [reqs EXCEPT ![r] =
                   Answered("config", ConfigBody(env, agents_available))]
    /\ UNCHANGED << globals, SafetyAgent, QualityAgent, TeamAgent >>

\* GET /
root(r) ==
    /\ reqs[r].pc = "idle" /\ Arrived(r)
    /\ reqs' = [reqs EXCEPT ![r] = Answered("root", RootBody(agents_available))]
    /\ UNCHANGED << globals, SafetyAgent, QualityAgent, TeamAgent >>

Next ==
    \E r \in 1..MaxRequests :
        \/ \E json \in QueryBodies : ask_safety_agent(r, json)
        \/ \E json \in QueryBodies : ask_quality_agent(r, json)
        \/ \E json \in TeamBodies : ask_team_agent(r, json)
        \/ \E content \in Contents : run_returns(r, content)
        \/ \E text \in RunErrors : run_raises(r, text)
        \/ health_check(r)
        \/ get_config(r)
        \/ root(r)

Spec == Init /\ [][Next]_vars


(* ------------------------------ the claims ----------------------------- *)

Requests == 1..MaxRequests

\* Initialisation succeeded: the framework imported, the LanceDB settings are
\* present and no statement of the try block of agents.py raised.
InitSucceeded ==
    /\ ~boot.import_error
    /\ boot.fail_at = "none"
    /\ EnvTruthy(env.LanceURL) /\ EnvTruthy(env.LANCE_API_KEY)

IsAsk(r) == reqs[r].endpoint \in AgentNames

\* The team_mode and model_id request r was sent with, defaults applied.
ModeOf(r) == TeamQueryRequest(reqs[r].json).team_mode

ModelIdOf(r) == QueryRequest(reqs[r].json).model_id

\* A POST /team/ask with a team_mode outside the three modes.
UnknownModeRequest(r) == reqs[r].endpoint = "team" /\ ModeOf(r) \notin Modes

\* The coordinator's fields a /team/ask may write.
TeamSettings(team) ==
    [model |-> team.model, mode |-> team.mode,
     instructions |-> team.instructions, description |-> team.description]

\* C1: a POST /team/ask with an unknown team_mode, sent while the team agent
\* is available, is answered with HTTP 400.
C1_UnknownModeIs400 ==
    \A r \in Requests :
        (UnknownModeRequest(r) /\ reqs[r].pc = "done" /\ TeamAgent # None)
            => reqs[r].status = 400

\* C2: for a POST /team/ask with an unknown team_mode the handler never calls
\* TeamAgent.run (nor any other agent's run): the request is answered without
\* ever being inside run.
C2_UnknownModeNeverRuns ==
    \A r \in Requests :
        UnknownModeRequest(r)
            => /\ reqs[r].pc = "done"
               /\ \A a \in AgentNames : reqs[r].runs[a] = 0
               /\ reqs[r].run_result = << >>

\* C2 witness: with the agents available, an unknown-mode request has been
\* answered while another team request did reach run.
C2_Witness ==
    /\ TeamAgent # None
    /\ \E r, q \in Requests :
        /\ UnknownModeRequest(r) /\ reqs[r].pc = "done" /\ ModeOf(r) = "bogus"
        /\ reqs[q].endpoint = "team" /\ reqs[q].runs["team"] = 1

\* C3: a POST /team/ask rejected for an unknown team_mode leaves the
\* coordinator's model, mode, instructions and description as they were.
C3_RejectedLeavesTeamUnchanged ==
    [][\A r \in Requests :
          (/\ reqs[r].pc = "idle" /\ reqs'[r].pc = "done"
           /\ reqs'[r].endpoint = "team"
           /\ TeamQueryRequest(reqs'[r].json).team_mode \notin Modes
           /\ TeamAgent # None)
              => TeamSettings(TeamAgent') = TeamSettings(TeamAgent)]_vars


\* C4: when initialisation failed, every POST to an ask endpoint is answered
\* with 503 and a non-empty detail, its handler calls no agent's run, and the
\* shared objects stay as the failed initialisation left them.
C4_UnavailableIs503 ==
    ~InitSucceeded =>
        /\ SafetyAgent = None /\ QualityAgent = None /\ TeamAgent = None
        /\ AGENTS = << >> /\ TEAM_INSTRUCTIONS = << >> /\ ~agents_available
        /\ \A r \in Requests :
              IsAsk(r) =>
                  /\ reqs[r].pc = "done"
                  /\ reqs[r].status = 503
                  /\ DOMAIN reqs[r].body = {"detail"}
                  /\ reqs[r].body.detail # ""
                  /\ \A a \in AgentNames : reqs[r].runs[a] = 0
                  /\ reqs[r].run_result = << >>

\* C4 witness: initialisation failed part-way (the team could not be built);
\* a team request with a model_id and an unknown mode and a safety request
\* with a model_id have both been answered.
C4_Witness ==
    /\ boot.fail_at = "team_agent" /\ ~InitSucceeded
    /\ \E r, q \in Requests :
        /\ reqs[r].endpoint = "team" /\ reqs[r].pc = "done"
        /\ ModeOf(r) = "bogus" /\ ModelIdOf(r) = "gpt-4o"
        /\ reqs[q].endpoint = "safety" /\ reqs[q].pc = "done"
        /\ ModelIdOf(q) = "gpt-4o"

\* The shared object an ask endpoint runs.
AgentOf(endpoint) ==
    CASE endpoint = "safety" -> SafetyAgent
      [] endpoint = "quality" -> QualityAgent
      [] OTHER -> TeamAgent

\* Request q arrived after r at the same endpoint.
LaterAt(r, q) == q > r /\ reqs[q].endpoint = reqs[r].endpoint

C5_WitnessSafety ==
    \E r, q \in Requests :
        /\ reqs[r].endpoint = "safety" /\ reqs[r].pc = "running"
        /\ ModelIdOf(r) = "o3-mini"
        /\ LaterAt(r, q) /\ ModelIdOf(q) = "gpt-4o"
        /\ SafetyAgent.model = "gpt-4o"

\* C6: GET /health reports agents_status "available" and the three agent
\* names exactly when initialisation succeeded, "unavailable" and no agent
\* otherwise; GET /config reports agents_available with the same truth value.
C6_HealthTruthful ==
    \A r \in Requests :
        /\ (reqs[r].endpoint = "health" /\ reqs[r].pc = "done") =>
              /\ reqs[r].status = 200
              /\ InitSucceeded =>
                    /\ reqs[r].body.agents_status = "available"
                    /\ reqs[r].body.available_agents = << "safety", "quality", "team" >>
              /\ ~InitSucceeded =>
                    /\ reqs[r].body.agents_status = "unavailable"
                    /\ reqs[r].body.available_agents = << >>
        /\ (reqs[r].endpoint = "config" /\ reqs[r].pc = "done") =>
              /\ reqs[r].status = 200
              /\ reqs[r].body.agents_available = InitSucceeded

\* C6 witness: initialisation failed after the safety agent was built, and
\* both /health and /config have been answered.
C6_Witness ==
    /\ boot.fail_at = "quality_agent" /\ ~InitSucceeded
    /\ \E r, q \in Requests :
        /\ reqs[r].endpoint = "health" /\ reqs[r].pc = "done"
        /\ reqs[q].endpoint = "config" /\ reqs[q].pc = "done"

\* C7: a request whose run raised is answered with 500 and the exception's
\* text as detail, carries no response field, and its handler called run once,
\* on its own agent; no handler calls run more than once.
C7_RunFailureIs500 ==
    \A r \in Requests :
        /\ \A a \in AgentNames : reqs[r].runs[a] <= 1
        /\ "raised" \in DOMAIN reqs[r].run_result =>
              /\ reqs[r].pc = "done"
              /\ reqs[r].status = 500
              /\ reqs[r].body = [detail |-> reqs[r].run_result.raised]
              /\ "response" \notin DOMAIN reqs[r].body
              /\ \A a \in AgentNames :
                    reqs[r].runs[a] = IF a = reqs[r].endpoint THEN 1 ELSE 0

\* C7 witness: the run of a team request and the run of a safety request have
\* both raised.
C7_Witness ==
    \E r, q \in Requests :
        /\ reqs[r].endpoint = "team" /\ reqs[q].endpoint = "safety"
        /\ reqs[r].run_result = [raised |-> "upstream failure"]
        /\ reqs[q].run_result = [raised |-> "upstream failure"]

\* C8: when the handler of a POST /team/ask that omits team_mode calls
\* TeamAgent.run, the coordinator holds mode collaborate with the collaborate
\* instructions and description, whatever it held before.
C8_OmittedModeRunsCollaborate ==
    [][\A r \in Requests :
          (/\ reqs[r].pc = "idle" /\ reqs'[r].pc = "running"
           /\ reqs'[r].endpoint = "team"
           /\ "team_mode" \notin DOMAIN reqs'[r].json)
              => /\ TeamAgent'.mode = "collaborate"
                 /\ TeamAgent'.instructions = collaborate_instructions
                 /\ TeamAgent'.description =
                        DictGet(TeamInstructionsTable, "collaborate").description]_vars

\* C8 witness: a request that omitted team_mode is inside run under the
\* collaborate bundle after an earlier request selected route.
C8_Witness ==
    \E r, q \in Requests :
        /\ q < r /\ reqs[q].endpoint = "team" /\ ModeOf(q) = "route"
        /\ reqs[q].runs["team"] = 1
        /\ reqs[r].endpoint = "team" /\ reqs[r].pc = "running"
        /\ "team_mode" \notin DOMAIN reqs[r].json
        /\ TeamAgent.mode = "collaborate"
        /\ TeamAgent.instructions = collaborate_instructions

\* Every mode has a bundle with a non-empty description and a non-empty
\* directive sequence, and the bundles are pairwise distinct.
BundlesWellFormed ==
    /\ \A m \in Modes :
          /\ DictHas(TEAM_INSTRUCTIONS, m)
          /\ DictGet(TEAM_INSTRUCTIONS, m).description # ""
          /\ Len(DictGet(TEAM_INSTRUCTIONS, m).instructions) > 0
    /\ \A m, n \in Modes :
          m # n =>
             /\ DictGet(TEAM_INSTRUCTIONS, m) # DictGet(TEAM_INSTRUCTIONS, n)
             /\ DictGet(TEAM_INSTRUCTIONS, m).description
                    # DictGet(TEAM_INSTRUCTIONS, n).description
             /\ DictGet(TEAM_INSTRUCTIONS, m).instructions
                    # DictGet(TEAM_INSTRUCTIONS, n).instructions

\* C9: with the agents available the three bundles are well formed and
\* distinct, and a POST /team/ask with mode m in the three modes always
\* reaches TeamAgent.run, at which moment the coordinator's mode is m and its
\* instructions and description are those of m's bundle.
C9_DispatchTotalAndExact ==
    [][\A r \in Requests :
          (/\ reqs[r].pc = "idle" /\ reqs'[r].endpoint = "team"
           /\ TeamQueryRequest(reqs'[r].json).team_mode \in Modes
           /\ agents_available)
              => /\ BundlesWellFormed
                 /\ reqs'[r].pc = "running"
                 /\ TeamAgent'.mode = TeamQueryRequest(reqs'[r].json).team_mode
                 /\ TeamAgent'.instructions =
                        DictGet(TEAM_INSTRUCTIONS, TeamAgent'.mode).instructions
                 /\ TeamAgent'.description =
                        DictGet(TEAM_INSTRUCTIONS, TeamAgent'.mode).description]_vars

\* C9 witness: a coordinate request is inside run under the coordinate bundle
\* after a route request.
C9_Witness ==
    \E r, q \in Requests :
        /\ q < r /\ reqs[q].endpoint = "team" /\ ModeOf(q) = "route"
        /\ reqs[r].endpoint = "team" /\ reqs[r].pc = "running"
        /\ "team_mode" \in DOMAIN reqs[r].json /\ ModeOf(r) = "coordinate"
        /\ TeamAgent.mode = "coordinate"
        /\ TeamAgent.instructions = coordinate_instructions
        /\ TeamAgent.description =
               "You are a coordinator that delegates tasks to team members and synthesizes their outputs."

\* C10: GET /health answers 200 with status "healthy" and a body that has a
\* field named agents.
C10_HealthHasAgentsField ==
    \A r \in Requests :
        (reqs[r].endpoint = "health" /\ reqs[r].pc = "done") =>
            /\ reqs[r].status = 200
            /\ reqs[r].body.status = "healthy"
            /\ "agents" \in DOMAIN reqs[r].body

\* C11: a request whose run returned normally is answered with 200 and a body
\* whose response field is exactly the content its own run returned, and its
\* handler called run once, on the endpoint's own agent and on no other.
C11_AnswerIsOwnRunContent ==
    \A r \in Requests :
        "returned" \in DOMAIN reqs[r].run_result =>
            /\ IsAsk(r)
            /\ reqs[r].pc = "done"
            /\ reqs[r].status = 200
            /\ reqs[r].body = [response |-> reqs[r].run_result.returned]
            /\ \A a \in AgentNames :
                  reqs[r].runs[a] = IF a = reqs[r].endpoint THEN 1 ELSE 0

\* C11 witness: two overlapping runs, of a team request with a valid mode and
\* of a safety request, returned different contents and each was answered.
C11_Witness ==
    \E r, q \in Requests :
        /\ reqs[r].endpoint = "team" /\ ModeOf(r) = "route"
        /\ reqs[q].endpoint = "safety"
        /\ reqs[r].run_result = [returned |-> "answer A"]
        /\ reqs[q].run_result = [returned |-> "answer B"]
        /\ reqs[r].status = 200 /\ reqs[q].status = 200

\* C12: GET /health and GET /config are read-only and idempotent.  The step
\* that serves one leaves every agent, the registry, the instruction table,
\* the availability and every other request as they were, and its answer is
\* identical to the answer of every earlier call of the same endpoint.
C12_GetsAreReadOnlyAndIdempotent ==
    [][\A r \in Requests :
          (reqs[r].pc = "idle" /\ reqs'[r].endpoint \in {"health", "config"})
              => /\ reqs'[r].pc = "done" /\ reqs'[r].status = 200
                 /\ SafetyAgent' = SafetyAgent
                 /\ QualityAgent' = QualityAgent
                 /\ TeamAgent' = TeamAgent
                 /\ AGENTS' = AGENTS
                 /\ TEAM_INSTRUCTIONS' = TEAM_INSTRUCTIONS
                 /\ agents_available' = agents_available
                 /\ env' = env
                 /\ \A q \in Requests \ {r} :
                       /\ reqs'[q] = reqs[q]
                       /\ reqs[q].endpoint = reqs'[r].endpoint =>
                             /\ reqs'[r].body = reqs[q].body
                             /\ reqs'[r].status = reqs[q].status]_vars

\* C12 witness: /health has been called twice with the agents available and
\* answered the same both times.
C12_Witness ==
    /\ InitSucceeded
    /\ \E r, q \in Requests :
        /\ r < q
        /\ reqs[r].endpoint = "health" /\ reqs[q].endpoint = "health"
        /\ reqs[r].pc = "done" /\ reqs[q].pc = "done"
        /\ reqs[r].body = reqs[q].body
        /\ reqs[r].body.available_agents = << "safety", "quality", "team" >>

\* The requests served so far at an endpoint whose body carried a model_id
\* field, and those whose model_id was a non-empty string.
SentModelId(endpoint) ==
    {q \in Requests : reqs[q].endpoint = endpoint /\ "model_id" \in DOMAIN reqs[q].json}

SentNonEmptyModelId(endpoint) ==
    {q \in SentModelId(endpoint) : StrTruthy(reqs[q].json.model_id)}

\* The most recent request of a non-empty set of requests.
Latest(S) == CHOOSE q \in S : \A p \in S : p <= q

\* C13 as stated: the model of each agent is the model_id of the most recent
\* request to its endpoint that supplied a model_id, and the default o3-mini
\* if no request supplied one.
C13_ModelIsLastSuppliedModelId ==
    \A e \in AgentNames :
        AgentOf(e) # None =>
            AgentOf(e).model =
                IF SentModelId(e) = {} THEN OpenAIChat(default_model_id)
                ELSE OpenAIChat(reqs[Latest(SentModelId(e))].json.model_id)

\* C13 as amended: the model of each agent is the model_id of the most recent
\* request to its endpoint that supplied a non-empty model_id (whether or not
\* that request was answered with an error), and the default o3-mini if no
\* request supplied one; a missing or empty model_id leaves the model as it is.
C13_ModelIsLastNonEmptyModelId ==
    \A e \in AgentNames :
        AgentOf(e) # None =>
            AgentOf(e).model =
                IF SentNonEmptyModelId(e) = {} THEN OpenAIChat(default_model_id)
                ELSE OpenAIChat(reqs[Latest(SentNonEmptyModelId(e))].json.model_id)

\* C13 witness: a safety request without a model_id is inside run under the
\* gpt-4o an earlier safety request installed.
C13_Witness ==
    \E r, q \in Requests :
        /\ q < r
        /\ reqs[q].endpoint = "safety" /\ ModelIdOf(q) = "gpt-4o"
        /\ reqs[r].endpoint = "safety" /\ reqs[r].pc = "running"
        /\ "model_id" \notin DOMAIN reqs[r].json
        /\ SafetyAgent.model = "gpt-4o"

\* Object b is object a with at most its model replaced.
SameButModel(a, b) ==
    IF a = None THEN b = None
    ELSE b # None /\ b = [a EXCEPT !.model = b.model]

\* Team b is team a with at most model, mode, instructions and description
\* replaced.
SameButTeamSettings(a, b) ==
    IF a = None THEN b = None
    ELSE b # None
         /\ b = [a EXCEPT !.model = b.model, !.mode = b.mode,
                          !.instructions = b.instructions,
                          !.description = b.description]

\* Request r is taken up by its handler in this step.
TakenUp(r) == reqs[r].pc = "idle" /\ reqs'[r].pc # "idle"

\* C14: no step changes TEAM_INSTRUCTIONS, AGENTS or the availability.  The
\* step of /safety/ask changes at most SafetyAgent.model, that of /quality/ask
\* at most QualityAgent.model, that of /team/ask at most TeamAgent's model,
\* mode, instructions and description; every other step changes no agent.
C14_HandlersWriteOnlyTheirTarget ==
    [][/\ AGENTS' = AGENTS
       /\ TEAM_INSTRUCTIONS' = TEAM_INSTRUCTIONS
       /\ agents_available' = agents_available
       /\ \A r \in Requests :
             TakenUp(r) =>
                 /\ reqs'[r].endpoint = "safety" =>
                       /\ SameButModel(SafetyAgent, SafetyAgent')
                       /\ QualityAgent' = QualityAgent /\ TeamAgent' = TeamAgent
                 /\ reqs'[r].endpoint = "quality" =>
                       /\ SameButModel(QualityAgent, QualityAgent')
                       /\ SafetyAgent' = SafetyAgent /\ TeamAgent' = TeamAgent
                 /\ reqs'[r].endpoint = "team" =>
                       /\ SameButTeamSettings(TeamAgent, TeamAgent')
                       /\ SafetyAgent' = SafetyAgent /\ QualityAgent' = QualityAgent
                 /\ reqs'[r].endpoint \notin AgentNames =>
                       /\ SafetyAgent' = SafetyAgent /\ QualityAgent' = QualityAgent
                       /\ TeamAgent' = TeamAgent
       /\ (\A r \in Requests : ~TakenUp(r)) =>
             /\ SafetyAgent' = SafetyAgent /\ QualityAgent' = QualityAgent
             /\ TeamAgent' = TeamAgent]_vars

\* C14 witness: a team request installed gpt-4o and the route bundle on the
\* team, a quality request installed gpt-4o on the quality agent, and the
\* safety agent still has its own model.
C14_Witness ==
    /\ \E r, q \in Requests :
        /\ reqs[r].endpoint = "team" /\ ModelIdOf(r) = "gpt-4o" /\ ModeOf(r) = "route"
        /\ reqs[q].endpoint = "quality" /\ ModelIdOf(q) = "gpt-4o"
    /\ TeamAgent # None
    /\ TeamAgent.model = "gpt-4o" /\ TeamAgent.mode = "route"
    /\ TeamAgent.members = << "SafetyAgent", "QualityAgent" >>
    /\ QualityAgent.model = "gpt-4o"
    /\ SafetyAgent.model = "o3-mini"
    /\ AGENTS = AgentsRegistry /\ TEAM_INSTRUCTIONS = TeamInstructionsTable

\* The two cases of availability.
AllPresent ==
    /\ SafetyAgent # None /\ QualityAgent # None /\ TeamAgent # None
    /\ DictKeys(AGENTS) = << "safety", "quality", "team" >>
    /\ Len(TEAM_INSTRUCTIONS) = 3
    /\ {DictKeys(TEAM_INSTRUCTIONS)[i] : i \in 1..Len(TEAM_INSTRUCTIONS)} = Modes
    /\ agents_available

AllAbsent ==
    /\ SafetyAgent = None /\ QualityAgent = None /\ TeamAgent = None
    /\ AGENTS = << >>
    /\ TEAM_INSTRUCTIONS = << >>
    /\ ~agents_available

\* C15: in every reachable state either all three agents are present with the
\* full registry and instruction table and are_agents_available() true, or
\* all are absent with both dicts empty and are_agents_available() false; which
\* case holds is decided by the start-up alone, whatever requests were served.
C15_AvailabilityAllOrNothing ==
    \/ InitSucceeded /\ AllPresent
    \/ ~InitSucceeded /\ AllAbsent

\* C15 witness: initialisation failed while building the team, after both
\* member agents were built; an ask request and a health check were served
\* and everything is absent.
C15_Witness ==
    /\ boot.fail_at = "team_agent" /\ ~boot.import_error
    /\ AllAbsent
    /\ \E r, q \in Requests :
        /\ IsAsk(r) /\ reqs[r].pc = "done"
        /\ reqs[q].endpoint = "health" /\ reqs[q].pc = "done"

====
